---- MODULE Spec2Model ----
(***************************************************************************)
(* State-machine model of svcs.repository.Repository                       *)
(* (src/svcs/repository.py): the staging table, the commit collection,     *)
(* the branch table, as its operations read and write them.  A call's      *)
(* exception or return value is an operator of the state it is made in     *)
(* and of its arguments; its writes are an action.  Where the order of    *)
(* the file accesses within one call matters (a crash, a second process,   *)
(* a loop), the call is a process that takes them one at a time.           *)
(*                                                                         *)
(* Every Python value that ends up in a JSON file is a string or null.     *)
(* Strings are TLA+ strings; null (Python None) is the value None below,   *)
(* which no input name, digest or commit id equals.                        *)
(***************************************************************************)
EXTENDS Integers, Sequences, FiniteSets, TLC

VARIABLES
    initialized,   \* repo_path.exists()
    staging,       \* .repo/staging.json : path -> [hash, timestamp]
    commits,       \* .repo/commits/<id>.json : id -> commit record
    branches,      \* .repo/branches.json : key -> value, key "current" included
    pc,            \* per process: the statement it executes next
    frame,         \* per process: the local variables of the call it runs
    dest           \* the repository at the destination path of clone

\* The files of the repository, and all variables.
repo == <<initialized, staging, commits, branches>>
vars == <<initialized, staging, commits, branches, pc, frame, dest>>

----------------------------------------------------------------------------
(* Bounds of the model *)

\* The most commits persisted under Spec, where any string is a branch name,
\* and under SpecBranching, where the names are those of branches.
MaxCommits == 2
MaxCommitsBranching == 3
\* The most commits persisted under SpecHistories, where a side of a merge
\* can hold two commits after the common ancestor.
MaxCommitsHistories == 4
\* The most commits persisted when a commit is started under SpecCrash.
MaxCommitsCrash == 2
\* The most commits persisted under SpecStaging.
MaxCommitsStaging == 1
\* The most commits persisted when a commit is started under SpecConcurrent.
MaxCommitsConcurrent == 1
\* The most commits the source repository holds under SpecClone.
MaxCommitsClone == 1
\* The most ids _get_commit_history appends under SpecTraversal: one more
\* than the store holds commits.
MaxHistory == 4

(* Inputs *)

Paths == {"f.txt", "g.txt"}
Contents == {"a", "b"}

\* The working tree belongs to the user, not to the repository: any program
\* may write, delete or ignore files between two calls, so every call that
\* looks at the tree finds an arbitrary one.  files maps a path to its
\* content (NoFile when there is no such file), ignored is the set of paths
\* that a pattern of .svcignore matches.  Four trees: no file, both files
\* with content "a", f.txt rewritten to "b", and both files ignored.
NoFile == "<absent>"
Trees ==
    {t \in [files : [Paths -> Contents \cup {NoFile}], ignored : {{}, Paths}] :
        \/ t.ignored = {} /\ t.files \in {[p \in Paths |-> NoFile],
                                          [p \in Paths |-> "a"],
                                          ("f.txt" :> "b" @@ "g.txt" :> "a")}
        \/ t.ignored = Paths /\ t.files = [p \in Paths |-> "a"]}
BranchNames == {"main", "dev", "current"}
OrdinaryNames == BranchNames \ {"current"}
Messages == {"msg"}
\* What datetime.now() returns; two calls can read the same value.
Timestamps == {0}
\* The same where the values read by two calls are compared.
Clock == {0, 1}

None == "<null>"
EnvUser == "user"
Authors == {None}

EmptyMap == [k \in {} |-> None]

\* The processes that run svcs on the repository: one per command line.
Procs == {1, 2}

\* The local variables of Repository.commit (message, author, staging,
\* branches, and the timestamp it reads) and of _get_commit_history
\* (current, history), before the call assigns them.
NoFrame ==
    [message |-> "", author |-> None, timestamp |-> 0,
     staging |-> EmptyMap, branches |-> EmptyMap,
     current |-> None, history |-> <<>>]

\* The statements a process can be about to execute; a process that is not
\* at one of them runs no call: it is idle, or its last call has returned,
\* has raised, or was killed.
Running ==
    {"read_staging", "read_branches", "write_commit", "write_branches",
     "write_staging", "loop"}

----------------------------------------------------------------------------
(* Pure helpers *)

\* hashlib.sha256(...).hexdigest(): a collision-free digest of its input.
sha256(bytes) == "sha256(" \o bytes \o ")"

\* _hash_file: the digest of the file's bytes.
_hash_file(content) == sha256(content)

\* json.dumps(commit, sort_keys=True): the canonical text of a commit record,
\* its keys and the paths of its changes in sorted order.
SortedPaths == <<"f.txt", "g.txt">>

RECURSIVE dumps_changes(_, _)
dumps_changes(changes, i) ==
    IF i > Len(SortedPaths) THEN ""
    ELSE LET path == SortedPaths[i]
         IN  (IF path \in DOMAIN changes
              THEN path \o ":{hash:" \o changes[path].hash \o ",timestamp:"
                        \o ToString(changes[path].timestamp) \o "}"
              ELSE "")
             \o dumps_changes(changes, i + 1)

json_dumps(commit) ==
    "{author:" \o commit.author
        \o ",changes:{" \o dumps_changes(commit.changes, 1) \o "}"
        \o ",message:" \o commit.message
        \o ",parent:" \o commit.parent
        \o ",timestamp:" \o ToString(commit.timestamp) \o "}"

\* Python truthiness of an optional string: None and "" are false.
Truthy(s) == s # None /\ s # ""

\* dict.get(key, {}).get('hash')
get_hash(table, key) == IF key \in DOMAIN table THEN table[key].hash ELSE None

\* dict[key] = value
Put(table, key, value) ==
    [k \in DOMAIN table \cup {key} |-> IF k = key THEN value ELSE table[k]]

\* _is_ignored for a path of the working tree outside .repo
_is_ignored(tree, path) == path \in tree.ignored

\* get_status: the walk of the working tree, staged and modified lists.
get_status(tree) ==
    LET files == tree.files
        seen == {p \in Paths : files[p] # NoFile /\ ~_is_ignored(tree, p)}
    IN  [staged    |-> {p \in seen : p \in DOMAIN staging
                                     /\ _hash_file(files[p]) = staging[p].hash},
         modified  |-> {p \in seen : p \in DOMAIN staging
                                     /\ _hash_file(files[p]) # staging[p].hash},
         untracked |-> {p \in seen : p \notin DOMAIN staging}]

\* status['modified'] or status['staged']
uncommitted_changes(tree) ==
    get_status(tree).modified # {} \/ get_status(tree).staged # {}

\* What a call does: it raises err, or err is "ok" and it returns ret.
Outcome(err, ret) == [err |-> err, ret |-> ret]

Errors ==
    {"ok", "NotInitialized", "AlreadyInitialized", "FileNotFound", "IgnoredFile",
     "EmptyStagingError", "CommitNotFoundError", "BranchExistsError",
     "BranchNotFoundError", "SelfMergeError", "DirtyWorkingTreeError",
     "NoCommonAncestorError", "KeyError", "DestinationNotEmptyError"}

----------------------------------------------------------------------------
\* A path where nothing exists, or an empty directory: no .repo, no file.
NoRepository ==
    [initialized |-> FALSE, staging |-> EmptyMap, commits |-> EmptyMap,
     branches |-> EmptyMap]

Init ==
    /\ initialized = FALSE
    /\ staging = EmptyMap
    /\ commits = EmptyMap
    /\ branches = EmptyMap
    /\ pc = [p \in Procs |-> "idle"]
    /\ frame = [p \in Procs |-> NoFrame]
    /\ dest = NoRepository

\* Repository.init: it raises when .repo exists.  The default .svcignore it
\* writes matches none of Paths.
init ==
    IF initialized
    THEN UNCHANGED vars
    ELSE /\ initialized' = TRUE
         /\ staging' = EmptyMap
         /\ commits' = EmptyMap
         /\ branches' = ("main" :> None @@ "current" :> "main")

\* The checks of Repository.stage_file.
stage_error(tree, file_path) ==
    IF ~initialized THEN "NotInitialized"
    ELSE IF tree.files[file_path] = NoFile THEN "FileNotFound"
    ELSE IF _is_ignored(tree, file_path) THEN "IgnoredFile"
    ELSE "ok"

\* staging_table forgetting the table it read: the new entry alone.
staging_table_fresh(table, tree, file_path, timestamp) ==
    file_path :> [hash |-> _hash_file(tree.files[file_path]),
                  timestamp |-> timestamp]

\* staging[rel_path] = {'hash': file_hash, 'timestamp': now}: the staging
\* table that stage_file writes, from the one it read.
staging_table(table, tree, file_path, timestamp) ==
    Put(table, file_path, [hash |-> _hash_file(tree.files[file_path]),
                           timestamp |-> timestamp])

\* Repository.stage_file
stage_file(tree, file_path, timestamp) ==
    IF stage_error(tree, file_path) # "ok"
    THEN UNCHANGED vars
    ELSE /\ staging' = staging_table(staging, tree, file_path, timestamp)
         /\ UNCHANGED <<initialized, commits, branches>>

\* commit_object with the parent link left out: every commit a root.
commit_object_root(message, author, timestamp, parent_commit, changes) ==
    [message   |-> message,
     author    |-> IF Truthy(author) THEN author ELSE EnvUser,
     timestamp |-> timestamp,
     parent    |-> None,
     changes   |-> changes]

\* The commit record built by Repository.commit.
commit_object(message, author, timestamp, parent_commit, changes) ==
    [message   |-> message,
     author    |-> IF Truthy(author) THEN author ELSE EnvUser,
     timestamp |-> timestamp,
     parent    |-> parent_commit,
     changes   |-> changes]

\* commit_hash over the message and the author only.
commit_hash_of_message(commit) ==
    sha256("{author:" \o commit.author \o ",message:" \o commit.message \o "}")

\* The id of a commit record: the digest of its canonical text.
commit_hash(commit) == sha256(json_dumps(commit))

\* commit_error without the check of an empty staging table.
commit_error_unchecked ==
    IF ~initialized THEN "NotInitialized"
    ELSE IF branches["current"] \notin DOMAIN branches THEN "KeyError"
    ELSE "ok"

\* The checks of Repository.commit before it builds the record.
commit_error ==
    IF ~initialized THEN "NotInitialized"
    ELSE IF staging = EmptyMap THEN "EmptyStagingError"
    ELSE IF branches["current"] \notin DOMAIN branches THEN "KeyError"
    ELSE "ok"

\* Repository.commit
commit(message, author, timestamp) ==
    LET current_branch == branches["current"]
        parent_commit == branches[current_branch]
        new == commit_object(message, author, timestamp, parent_commit, staging)
    IN  IF commit_error # "ok"
        THEN UNCHANGED vars
        ELSE /\ commits' = Put(commits, commit_hash(new), new)
             /\ branches' = Put(branches, current_branch, commit_hash(new))
             /\ staging' = EmptyMap
             /\ UNCHANGED initialized

----------------------------------------------------------------------------
(* Repository.commit as the process p that runs it, one file access at a    *)
(* time; between two of them another process can run, or p can be killed.  *)

\* The commit record and its id, from the local variables of the call.
frame_commit(p) ==
    LET f == frame[p]
    IN  commit_object(f.message, f.author, f.timestamp,
                      f.branches[f.branches["current"]], f.staging)
frame_commit_hash(p) == commit_hash(frame_commit(p))

\* The call starts: "Not a repository" unless .repo exists.
commit_call(p, message, author) ==
    /\ pc[p] \notin Running
    /\ pc' = [pc EXCEPT ![p] = IF initialized THEN "read_staging" ELSE "raised"]
    /\ frame' = [frame EXCEPT ![p] = [NoFrame EXCEPT !.message = message,
                                                     !.author = author]]
    /\ UNCHANGED <<repo, dest>>

\* staging = self._read_json(STAGING_FILE), and the check that it is not
\* empty.
commit_read_staging(p) ==
    /\ pc[p] = "read_staging"
    /\ frame' = [frame EXCEPT ![p].staging = staging]
    /\ pc' = [pc EXCEPT ![p] = IF staging = EmptyMap THEN "raised"
                               ELSE "read_branches"]
    /\ UNCHANGED <<repo, dest>>

\* branches = self._read_json(BRANCHES_FILE); the commit record and its id
\* are computed from what was read and from the time it is now.
commit_read_branches(p, timestamp) ==
    /\ pc[p] = "read_branches"
    /\ frame' = [frame EXCEPT ![p].branches = branches,
                              ![p].timestamp = timestamp]
    /\ pc' = [pc EXCEPT ![p] = IF branches["current"] \notin DOMAIN branches
                               THEN "raised" ELSE "write_commit"]
    /\ UNCHANGED <<repo, dest>>

\* commit_write_commit writing no file: the record is never persisted.
commit_write_commit_skipped(p) ==
    /\ pc[p] = "write_commit"
    /\ pc' = [pc EXCEPT ![p] = "write_branches"]
    /\ UNCHANGED <<repo, frame, dest>>

\* self._write_json(commit_path, commit)
commit_write_commit(p) ==
    /\ pc[p] = "write_commit"
    /\ commits' = Put(commits, frame_commit_hash(p), frame_commit(p))
    /\ pc' = [pc EXCEPT ![p] = "write_branches"]
    /\ UNCHANGED <<initialized, staging, branches, frame, dest>>

\* commit_write_branches without the assignment of line 188: the table is
\* written back as it was read.
commit_write_branches_stale(p) ==
    /\ pc[p] = "write_branches"
    /\ branches' = frame[p].branches
    /\ pc' = [pc EXCEPT ![p] = "write_staging"]
    /\ UNCHANGED <<initialized, staging, commits, frame, dest>>

\* branches[current_branch] = commit_hash; self._write_json(BRANCHES_FILE,
\* branches): the table as this call read it, with the one head replaced.
commit_write_branches(p) ==
    /\ pc[p] = "write_branches"
    /\ branches' = Put(frame[p].branches, frame[p].branches["current"],
                       frame_commit_hash(p))
    /\ pc' = [pc EXCEPT ![p] = "write_staging"]
    /\ UNCHANGED <<initialized, staging, commits, frame, dest>>

\* self._write_json(STAGING_FILE, {}); return commit_hash
commit_write_staging(p) ==
    /\ pc[p] = "write_staging"
    /\ staging' = EmptyMap
    /\ pc' = [pc EXCEPT ![p] = "returned"]
    /\ UNCHANGED <<initialized, commits, branches, frame, dest>>

\* The statements of commit after the call started.
commit_step(p) ==
    \/ commit_read_staging(p)
    \/ \E timestamp \in Clock : commit_read_branches(p, timestamp)
    \/ commit_write_commit(p)
    \/ commit_write_branches(p)
    \/ commit_write_staging(p)

\* The process is killed (or the machine stops) between two statements:
\* the files stay as they are.  frame keeps what the call had read.
crash(p) ==
    /\ pc[p] \in Running
    /\ pc' = [pc EXCEPT ![p] = "crashed"]
    /\ UNCHANGED <<repo, frame, dest>>

----------------------------------------------------------------------------
\* Repository.get_commit: the record, or the failure that it is not found.
commit_exists(commit_id) == commit_id \in DOMAIN commits
get_commit(commit_id) == commits[commit_id]

\* Repository.list_branches
list_branches == [k \in DOMAIN branches \ {"current"} |-> branches[k]]

\* Repository.get_current_branch
get_current_branch == branches["current"]

\* The checks of Repository.create_branch.
create_error(branch_name) ==
    IF ~initialized THEN "NotInitialized"
    ELSE IF branch_name \in DOMAIN branches THEN "BranchExistsError"
    ELSE IF branches["current"] \notin DOMAIN branches THEN "KeyError"
    ELSE "ok"

\* Repository.create_branch
create_branch(branch_name) ==
    IF create_error(branch_name) # "ok"
    THEN UNCHANGED vars
    ELSE /\ branches' = Put(branches, branch_name, branches[branches["current"]])
         /\ UNCHANGED <<initialized, staging, commits>>

\* The checks of Repository.switch_branch.
switch_error(tree, branch_name) ==
    IF ~initialized THEN "NotInitialized"
    ELSE IF branch_name \notin DOMAIN branches THEN "BranchNotFoundError"
    ELSE IF uncommitted_changes(tree) THEN "DirtyWorkingTreeError"
    ELSE "ok"

\* switch_branch that also resets the staging table, as a checkout that
\* discards the index would.
switch_branch_reset(tree, branch_name) ==
    IF switch_error(tree, branch_name) # "ok"
    THEN UNCHANGED vars
    ELSE /\ branches' = Put(branches, "current", branch_name)
         /\ staging' = EmptyMap
         /\ UNCHANGED <<initialized, commits>>

\* Repository.switch_branch
switch_branch(tree, branch_name) ==
    IF switch_error(tree, branch_name) # "ok"
    THEN UNCHANGED vars
    ELSE /\ branches' = Put(branches, "current", branch_name)
         /\ UNCHANGED <<initialized, staging, commits>>

\* _get_commit_history stopping one commit early: the loop tests the parent
\* of the commit it holds, so the root of the chain is left out.
RECURSIVE _get_commit_history_no_root(_)
_get_commit_history_no_root(tip) ==
    IF ~Truthy(tip)
    THEN [err |-> "ok", history |-> <<>>]
    ELSE IF ~commit_exists(tip)
    THEN [err |-> "CommitNotFoundError", history |-> <<tip>>]
    ELSE IF ~Truthy(get_commit(tip).parent)
    THEN [err |-> "ok", history |-> <<>>]
    ELSE LET rest == _get_commit_history_no_root(get_commit(tip).parent)
         IN  [err |-> rest.err, history |-> <<tip>> \o rest.history]

\* Repository._get_commit_history: the ids from tip back to the root,
\* newest first; get_commit raises when an id of the chain is not persisted.
RECURSIVE _get_commit_history(_)
_get_commit_history(tip) ==
    IF ~Truthy(tip)
    THEN [err |-> "ok", history |-> <<>>]
    ELSE IF ~commit_exists(tip)
    THEN [err |-> "CommitNotFoundError", history |-> <<tip>>]
    ELSE LET rest == _get_commit_history(get_commit(tip).parent)
         IN  [err |-> rest.err, history |-> <<tip>> \o rest.history]

\* _get_commit_history as the process p that runs it: the call, and one
\* iteration of its loop per step.
history_call(p, tip) ==
    /\ pc[p] \notin Running
    /\ pc' = [pc EXCEPT ![p] = "loop"]
    /\ frame' = [frame EXCEPT ![p] = [NoFrame EXCEPT !.current = tip]]
    /\ UNCHANGED <<repo, dest>>

\* while current: history.append(current); commit = get_commit(current);
\* current = commit['parent'] -- and return history when current is null.
history_loop(p) ==
    LET current == frame[p].current
        history == frame[p].history
    IN  /\ pc[p] = "loop"
        /\ IF ~Truthy(current)
           THEN /\ pc' = [pc EXCEPT ![p] = "returned"]
                /\ UNCHANGED frame
           ELSE /\ Len(history) < MaxHistory
                /\ IF ~commit_exists(current)
                   THEN /\ pc' = [pc EXCEPT ![p] = "raised"]
                        /\ frame' = [frame EXCEPT
                                         ![p].history = Append(history, current)]
                   ELSE /\ pc' = pc
                        /\ frame' = [frame EXCEPT
                                         ![p].history = Append(history, current),
                                         ![p].current = get_commit(current).parent]
        /\ UNCHANGED <<repo, dest>>

\* commit in target_history
InHistory(commit_id, history) == \E i \in 1 .. Len(history) : history[i] = commit_id

\* common_ancestor keeping the last hit of the scan instead of the first.
common_ancestor_oldest(source_history, target_history) ==
    LET hits == {i \in 1 .. Len(source_history) :
                     InHistory(source_history[i], target_history)}
    IN  IF hits = {} THEN None
        ELSE source_history[CHOOSE i \in hits : \A j \in hits : i >= j]

\* common_ancestor taking the parent of the source tip (the tip itself when
\* it is a root) without looking at target_history.
common_ancestor_parent(source_history, target_history) ==
    IF Len(source_history) = 0 THEN None
    ELSE IF Len(source_history) = 1 THEN source_history[1]
    ELSE source_history[2]

\* The loop of merge_branch that finds the common ancestor: the first id of
\* source_history that is in target_history, None when there is none.
common_ancestor(source_history, target_history) ==
    LET hits == {i \in 1 .. Len(source_history) :
                     InHistory(source_history[i], target_history)}
    IN  IF hits = {} THEN None
        ELSE source_history[CHOOSE i \in hits : \A j \in hits : i <= j]

\* is_conflict comparing the two sides only, without the ancestor.
is_conflict_two_way(source_change, target_change, ancestor_change) ==
    source_change # target_change

\* "File changed in both branches"
is_conflict(source_change, target_change, ancestor_change) ==
    /\ source_change # ancestor_change
    /\ target_change # ancestor_change
    /\ source_change # target_change

\* The loop of merge_branch over all_files.
compare_files(source_files, target_files, ancestor_files) ==
    LET all_files == DOMAIN source_files \cup DOMAIN target_files
        conflict(file_path) == is_conflict(get_hash(source_files, file_path),
                                           get_hash(target_files, file_path),
                                           get_hash(ancestor_files, file_path))
    IN  [conflicts |-> {file_path \in all_files : conflict(file_path)},
         merged    |-> {file_path \in all_files : ~conflict(file_path)}]

\* The checks of merge_branch before it reads a commit, in the code's order.
merge_precondition(tree, branch_name) ==
    IF ~initialized THEN "NotInitialized"
    ELSE IF branch_name \notin DOMAIN branches THEN "BranchNotFoundError"
    ELSE IF branch_name = branches["current"] THEN "SelfMergeError"
    ELSE IF uncommitted_changes(tree) THEN "DirtyWorkingTreeError"
    ELSE "ok"

\* What merge_branch raises or returns.
merge_result(tree, branch_name) ==
    LET pre == merge_precondition(tree, branch_name)
        current_branch == branches["current"]
        source_history == _get_commit_history(branches[branch_name])
        target_history == _get_commit_history(branches[current_branch])
        ancestor == common_ancestor(source_history.history, target_history.history)
    IN  IF pre # "ok" THEN Outcome(pre, None)
        ELSE IF ~commit_exists(branches[branch_name])
        THEN Outcome("CommitNotFoundError", None)
        ELSE IF current_branch \notin DOMAIN branches
        THEN Outcome("KeyError", None)
        ELSE IF ~commit_exists(branches[current_branch])
        THEN Outcome("CommitNotFoundError", None)
        ELSE IF source_history.err # "ok"
        THEN Outcome(source_history.err, None)
        ELSE IF target_history.err # "ok"
        THEN Outcome(target_history.err, None)
        ELSE IF ~Truthy(ancestor)
        THEN Outcome("NoCommonAncestorError", None)
        ELSE Outcome("ok",
                     compare_files(get_commit(branches[branch_name]).changes,
                                   get_commit(branches[current_branch]).changes,
                                   get_commit(ancestor).changes))

\* merge_branch moving the current head to the source head after a merge
\* without conflicts.
merge_branch_fast_forward(tree, branch_name) ==
    LET result == merge_result(tree, branch_name)
    IN  IF result.err = "ok" /\ result.ret.conflicts = {}
        THEN /\ branches' = Put(branches, branches["current"], branches[branch_name])
             /\ UNCHANGED <<initialized, staging, commits>>
        ELSE UNCHANGED vars

\* Repository.merge_branch: it raises or returns, and writes nothing.
merge_branch(tree, branch_name) ==
    /\ merge_result(tree, branch_name).err \in Errors
    /\ UNCHANGED vars

\* The checks of Repository.clone: the source is a repository, and the
\* destination path does not exist or is an empty directory.
clone_error ==
    IF ~initialized THEN "NotInitialized"
    ELSE IF dest # NoRepository THEN "DestinationNotEmptyError"
    ELSE "ok"

\* dest_repo.init() in the empty destination: what Repository.init writes.
dest_repo_init ==
    [initialized |-> TRUE, staging |-> EmptyMap, commits |-> EmptyMap,
     branches |-> ("main" :> None @@ "current" :> "main")]

\* Repository._copy_repository_data: every file of the source's commits
\* directory is loaded and dumped under the same name in the destination's,
\* and the source's branches.json is written as the destination's.  The
\* destination's staging.json is not written.  (The files of the working
\* tree and .svcignore are copied too; the working tree is an input of the
\* calls that read it.)
_copy_repository_data(dest_repo) ==
    [dest_repo EXCEPT
        !.commits = [commit_file \in DOMAIN commits |-> commits[commit_file]]
                        @@ dest_repo.commits,
        !.branches = branches]

\* Repository.clone into the destination path.
clone ==
    IF clone_error # "ok"
    THEN UNCHANGED vars
    ELSE /\ dest' = _copy_repository_data(dest_repo_init)
         /\ UNCHANGED <<repo, pc, frame>>

\* A call made from a command line of its own that runs to its end before
\* any other process takes a step: no process moves, and the call touches
\* no file outside its repository.
Alone(call) == call /\ UNCHANGED <<pc, frame, dest>>

\* The calls a user makes one after the other: branch names are drawn from
\* names, and commit is called while fewer than max_commits commits are
\* persisted.
Calls(names, max_commits) ==
    \/ Alone(init)
    \/ \E tree \in Trees, file_path \in Paths, timestamp \in Timestamps :
          Alone(stage_file(tree, file_path, timestamp))
    \/ \E message \in Messages, author \in Authors, timestamp \in Timestamps :
          /\ Cardinality(DOMAIN commits) < max_commits
          /\ Alone(commit(message, author, timestamp))
    \/ \E branch_name \in names : Alone(create_branch(branch_name))
    \/ \E tree \in Trees, branch_name \in names :
          Alone(switch_branch(tree, branch_name))
    \/ \E tree \in Trees, branch_name \in names :
          Alone(merge_branch(tree, branch_name))

\* Any string is passed as a branch name, the reserved key "current" too.
Next == Calls(BranchNames, MaxCommits)

Spec == Init /\ [][Next]_vars

\* Only names of branches are passed; histories grow one commit longer.
NextBranching == Calls(OrdinaryNames, MaxCommitsBranching)

SpecBranching == Init /\ [][NextBranching]_vars

\* The same calls with histories one commit longer again.
NextHistories == Calls(OrdinaryNames, MaxCommitsHistories)

SpecHistories == Init /\ [][NextHistories]_vars

\* Staging and committing, where two calls of stage_file can read different
\* times.
NextStaging ==
    \/ Alone(init)
    \/ \E tree \in Trees, file_path \in Paths, timestamp \in Clock :
          Alone(stage_file(tree, file_path, timestamp))
    \/ \E message \in Messages, author \in Authors, timestamp \in Timestamps :
          /\ Cardinality(DOMAIN commits) < MaxCommitsStaging
          /\ Alone(commit(message, author, timestamp))

SpecStaging == Init /\ [][NextStaging]_vars

\* The calls of one user on the source repository, any string passed as a
\* branch name, and clone of it into the destination path at any moment.
NextClone ==
    \/ Calls(BranchNames, MaxCommitsClone)
    \/ clone

SpecClone == Init /\ [][NextClone]_vars

\* No process runs a call.
Quiet == \A p \in Procs : pc[p] \notin Running

\* One user whose commit can be killed at any statement: the other calls
\* are made while no commit runs.
NextCrash ==
    \/ Quiet /\ Alone(init)
    \/ \E tree \in Trees, file_path \in Paths, timestamp \in Timestamps :
          Quiet /\ Alone(stage_file(tree, file_path, timestamp))
    \/ \E branch_name \in OrdinaryNames :
          Quiet /\ Alone(create_branch(branch_name))
    \/ \E tree \in Trees, branch_name \in OrdinaryNames :
          Quiet /\ Alone(switch_branch(tree, branch_name))
    \/ \E message \in Messages, author \in Authors :
          /\ Cardinality(DOMAIN commits) < MaxCommitsCrash
          /\ commit_call(1, message, author)
    \/ commit_step(1)
    \/ crash(1)

SpecCrash == Init /\ [][NextCrash]_vars

\* Two processes that run commit with no lock: once started, each takes its
\* next file access at any time, and goes on to its end (the scheduler runs
\* every process).  The other calls are made while no commit runs.
NextConcurrent ==
    \/ Quiet /\ Alone(init)
    \/ \E tree \in Trees, file_path \in Paths, timestamp \in Timestamps :
          Quiet /\ Alone(stage_file(tree, file_path, timestamp))
    \/ \E branch_name \in OrdinaryNames :
          Quiet /\ Alone(create_branch(branch_name))
    \/ \E tree \in Trees, branch_name \in OrdinaryNames :
          Quiet /\ Alone(switch_branch(tree, branch_name))
    \/ \E p \in Procs, message \in Messages, author \in Authors :
          /\ Cardinality(DOMAIN commits) < MaxCommitsConcurrent
          /\ commit_call(p, message, author)
    \/ \E p \in Procs : commit_step(p)

SpecConcurrent ==
    /\ Init
    /\ [][NextConcurrent]_vars
    /\ \A p \in Procs : WF_vars(commit_step(p))

\* A commit store that was not written by commit: the files of three ids,
\* each with any parent link, to a commit of the store, to an id that has
\* no file, or null.
StoreIds == {"c1", "c2", "c3"}
MissingId == "c0"
Stores ==
    [StoreIds -> {commit_object("msg", None, 0, parent,
                                "f.txt" :> [hash |-> _hash_file("a"), timestamp |-> 0]) :
                      parent \in StoreIds \cup {MissingId, None}}]

InitTraversal ==
    /\ initialized = TRUE
    /\ staging = EmptyMap
    /\ commits \in Stores
    /\ branches \in {("main" :> tip @@ "current" :> "main") : tip \in StoreIds}
    /\ pc = [p \in Procs |-> "idle"]
    /\ frame = [p \in Procs |-> NoFrame]
    /\ dest = NoRepository

\* The traversal from a branch head, as merge_branch starts it.
NextTraversal ==
    \/ \E b \in DOMAIN list_branches : history_call(1, branches[b])
    \/ history_loop(1)

SpecTraversal == InitTraversal /\ [][NextTraversal]_vars

----------------------------------------------------------------------------
(* Notions the properties are stated in, defined from the commit records    *)
(* and not from the operations above.                                       *)

\* The existing branches: the names list_branches returns.
BranchSet == DOMAIN list_branches

\* The commits reachable from id by parent links, id included.
RECURSIVE AncestorsOf(_)
AncestorsOf(id) ==
    IF id \notin DOMAIN commits THEN {}
    ELSE {id} \cup AncestorsOf(commits[id].parent)

\* The digest that a commit record has for a path, None when it has none.
DigestAt(id, path) ==
    IF path \in DOMAIN commits[id].changes THEN commits[id].changes[path].hash ELSE None

\* The position of a commit in a chain that holds it.
IndexIn(id, chain) == CHOOSE i \in 1 .. Len(chain) : chain[i] = id

\* A step of one call, whatever its arguments.
CommitStep ==
    \E message \in Messages, author \in Authors, timestamp \in Timestamps :
        commit(message, author, timestamp)
SwitchStep == \E tree \in Trees, name \in BranchNames : switch_branch(tree, name)
CreateStep == \E name \in BranchNames : create_branch(name)
MergeStep == \E tree \in Trees, name \in BranchNames : merge_branch(tree, name)

\* The heads of the merge of branch name into the current branch.
SourceTip(name) == branches[name]
CurrentTip == branches[branches["current"]]

\* The nearest common ancestor of two tips that have one: the common
\* ancestor that every common ancestor is an ancestor of.
NearestCommon(x, y) ==
    LET common == AncestorsOf(x) \cap AncestorsOf(y)
    IN  CHOOSE a \in common : common \subseteq AncestorsOf(a)

\* The commits of the branch with head tip made after commit base.
Since(tip, base) == AncestorsOf(tip) \ AncestorsOf(base)

\* A commit of the set records the path.
Touched(ids, path) == \E c \in ids : path \in DOMAIN commits[c].changes

\* The digest of the path at a commit: the one recorded by the commit or,
\* when it records none, by its nearest ancestor that does; None when no
\* commit of the chain records the path.
RECURSIVE LatestDigest(_, _)
LatestDigest(id, path) ==
    IF id \notin DOMAIN commits THEN None
    ELSE IF path \in DOMAIN commits[id].changes THEN commits[id].changes[path].hash
    ELSE LatestDigest(commits[id].parent, path)

\* The commits reachable by parent links from some branch head.
ReachableFromHeads == UNION {AncestorsOf(branches[b]) : b \in BranchSet}

\* A branch head names a commit id for which no record is persisted.
DanglingHead == \E b \in BranchSet : branches[b] # None /\ ~commit_exists(branches[b])

\* Processes p and q have each run commit to its return, from the same
\* content of branches.json, and returned different commit ids.
RacedCommits(p, q) ==
    /\ p # q
    /\ pc[p] = "returned"
    /\ pc[q] = "returned"
    /\ frame[p].branches = frame[q].branches
    /\ frame_commit_hash(p) # frame_commit_hash(q)

\* The root commits (no parent) among the ancestors of id.
RootsOf(id) == {c \in AncestorsOf(id) : commits[c].parent = None}

\* merge_branch(name) is called between two existing, distinct branches on a
\* clean working tree.
MergeOfBranches(tree, name) ==
    /\ initialized
    /\ name \in BranchSet
    /\ get_current_branch \in BranchSet
    /\ name # get_current_branch
    /\ ~uncommitted_changes(tree)

----------------------------------------------------------------------------
(* C1: in every reachable state the current marker names a branch that      *)
(* exists in the branch table and that list_branches returns.               *)
CurrentNamesBranch ==
    initialized => branches["current"] \in BranchSet

(* C2: a successful commit on staging table S (non-empty) with current      *)
(* branch B at head H leaves a commit C as head of B with                   *)
(* get_commit(C).changes = S and get_commit(C).parent = H, and leaves the   *)
(* staging table empty.                                                      *)
CommitRoundTrip ==
    [][(commit_error = "ok" /\ CommitStep) =>
          LET B == branches["current"]
              H == branches[B]
              C == branches'[B]
          IN  /\ staging # EmptyMap
              /\ C \in DOMAIN commits'
              /\ commits'[C].changes = staging
              /\ commits'[C].parent = H
              /\ staging' = EmptyMap]_vars

\* A commit on a real branch whose head was a commit: the new head's parent
\* is a persisted commit and nothing is staged any more.
CommitRoundTripWitness ==
    /\ initialized
    /\ staging = EmptyMap
    /\ branches["current"] \in BranchSet
    /\ CurrentTip \in DOMAIN commits
    /\ commits[CurrentTip].parent \in DOMAIN commits
    /\ Cardinality(DOMAIN commits[CurrentTip].changes) = 2

(* C3: when merge_branch returns, every path of the source tip's or the     *)
(* current tip's changes is in exactly one of conflicts and merged, and it  *)
(* is in conflicts iff s # a, t # a and s # t for its digests s, t, a in    *)
(* the source tip, the current tip and their nearest common ancestor.       *)
MergeClassification ==
    \A tree \in Trees, name \in BranchNames :
        LET result == merge_result(tree, name)
            common == AncestorsOf(SourceTip(name)) \cap AncestorsOf(CurrentTip)
            a_id == CHOOSE x \in common : common \subseteq AncestorsOf(x)
            all == DOMAIN commits[SourceTip(name)].changes
                       \cup DOMAIN commits[CurrentTip].changes
        IN  result.err = "ok" =>
              /\ result.ret.conflicts \cup result.ret.merged = all
              /\ result.ret.conflicts \cap result.ret.merged = {}
              /\ \A path \in all :
                    LET s == DigestAt(SourceTip(name), path)
                        t == DigestAt(CurrentTip, path)
                        a == DigestAt(a_id, path)
                    IN  path \in result.ret.conflicts <=> (s # a /\ t # a /\ s # t)

\* A merge that returns a conflict and a merged path.
MergeClassificationWitness ==
    \E tree \in Trees, name \in BranchNames :
        /\ merge_result(tree, name).err = "ok"
        /\ merge_result(tree, name).ret.conflicts # {}
        /\ merge_result(tree, name).ret.merged # {}

SwitchFailsWhileStaged ==
    [][(/\ initialized
        /\ staging # EmptyMap
        /\ SwitchStep
        /\ branches'["current"] \in BranchSet)
       => branches'["current"] = branches["current"]]_vars

(* C6: every persisted commit with a non-null parent has a persisted        *)
(* parent.                                                                   *)
ParentResolvable ==
    \A c \in DOMAIN commits :
        commits[c].parent # None => commit_exists(commits[c].parent)

(* C7: a persisted commit is never deleted and never rewritten with         *)
(* different content: get_commit of its id returns the same record in       *)
(* every later state.                                                        *)
CommitsImmutable ==
    [][\A c \in DOMAIN commits :
          c \in DOMAIN commits' /\ commits'[c] = commits[c]]_vars

\* Commits were written after the first one was persisted.
CommitsImmutableWitness ==
    \E c \in DOMAIN commits, d \in DOMAIN commits :
        /\ c # d
        /\ commits[d].parent = c
        /\ commits[c].message = commits[d].message
        /\ commits[c].author = commits[d].author

(* C8: commit on an initialized repository with an empty staging table      *)
(* fails with the empty-staging error and leaves the commits, the branch    *)
(* table (every head and the current marker) and the staging table          *)
(* unchanged.                                                                *)
EmptyCommitFails ==
    [][(initialized /\ staging = EmptyMap) =>
          /\ commit_error = "EmptyStagingError"
          /\ CommitStep => UNCHANGED <<commits, branches, staging>>]_vars

\* Nothing is staged in a repository that has a commit and two branches.
EmptyCommitFailsWitness ==
    /\ initialized
    /\ staging = EmptyMap
    /\ commits # EmptyMap
    /\ Cardinality(BranchSet) = 2

(* C9: merge_branch reports the first violated precondition in the order    *)
(* not initialized, name is not an existing branch (BranchNotFoundError),   *)
(* name is the current branch (SelfMergeError), working tree not clean      *)
(* (DirtyWorkingTreeError).                                                  *)
MergePreconditionOrder ==
    \A tree \in Trees, name \in BranchNames :
        LET expected ==
                IF ~initialized THEN "NotInitialized"
                ELSE IF name \notin BranchSet THEN "BranchNotFoundError"
                ELSE IF name = get_current_branch THEN "SelfMergeError"
                ELSE IF uncommitted_changes(tree) THEN "DirtyWorkingTreeError"
                ELSE "ok"
        IN  expected # "ok" => merge_result(tree, name).err = expected

(* C10: merge_branch, whether it returns or raises, creates no commit and   *)
(* leaves the commits, every branch head, the current marker and the        *)
(* staging table as they were: a step that changes one of them is not a     *)
(* step of merge_branch.                                                     *)
MergeReadOnly ==
    [][UNCHANGED <<commits, branches, staging>> \/ ~MergeStep]_vars

\* A state in which one merge returns a classification without conflicts and
\* another one raises.
MergeReadOnlyWitness ==
    /\ \E tree \in Trees, name \in BranchNames :
          /\ merge_result(tree, name).err = "ok"
          /\ merge_result(tree, name).ret.conflicts = {}
          /\ SourceTip(name) # CurrentTip
    /\ \E tree \in Trees, name \in BranchNames :
          merge_result(tree, name).err = "DirtyWorkingTreeError"

(* C11: in no state reachable from init through stage_file, commit,         *)
(* create_branch and switch_branch does merge_branch between two existing,  *)
(* distinct branches on a clean tree fail because no common ancestor        *)
(* exists.                                                                   *)
MergeFindsAncestor ==
    \A tree \in Trees, name \in BranchNames :
        MergeOfBranches(tree, name) =>
            merge_result(tree, name).err # "NoCommonAncestorError"

(* C11, amended: such a merge fails because no common ancestor exists       *)
(* exactly when both tips are persisted commits that descend from           *)
(* different root commits; two tips with a common root never fail so.       *)
MergeFindsAncestorOfCommonRoot ==
    \A tree \in Trees, name \in BranchNames :
        MergeOfBranches(tree, name) =>
            (merge_result(tree, name).err = "NoCommonAncestorError"
                <=> /\ commit_exists(SourceTip(name))
                    /\ commit_exists(CurrentTip)
                    /\ RootsOf(SourceTip(name)) \cap RootsOf(CurrentTip) = {})

\* Two branches forked from a commit, one of them a commit ahead: their tips
\* differ, have the same root, and the merge returns.
MergeFindsAncestorOfCommonRootWitness ==
    \E tree \in Trees, name \in BranchNames :
        /\ MergeOfBranches(tree, name)
        /\ commit_exists(SourceTip(name))
        /\ commit_exists(CurrentTip)
        /\ SourceTip(name) # CurrentTip
        /\ RootsOf(SourceTip(name)) \cap RootsOf(CurrentTip) # {}
        /\ merge_result(tree, name).err = "ok"

(* C12: when merge_branch returns, every path that commits made after the   *)
(* common ancestor recorded on the source branch and on the current branch, *)
(* and whose latest digests on the two sides differ from each other and     *)
(* from the ancestor's, is in conflicts, whichever commit of each side      *)
(* recorded it.                                                              *)
ConflictsComplete ==
    \A tree \in Trees, name \in BranchNames :
        LET result == merge_result(tree, name)
            base == NearestCommon(SourceTip(name), CurrentTip)
        IN  result.err = "ok" =>
              \A path \in Paths :
                  LET s == LatestDigest(SourceTip(name), path)
                      t == LatestDigest(CurrentTip, path)
                      a == LatestDigest(base, path)
                  IN  (/\ Touched(Since(SourceTip(name), base), path)
                       /\ Touched(Since(CurrentTip, base), path)
                       /\ s # t
                       /\ s # a
                       /\ t # a)
                      => path \in result.ret.conflicts

(* C13: on an initialized repository create_branch(name) fails with         *)
(* BranchExistsError and leaves the branch table unchanged when name is a   *)
(* branch; for any other name it succeeds and adds exactly one branch,      *)
(* whose head is the current branch's head (possibly null), leaving the     *)
(* current marker, the other heads, the commits and the staging table       *)
(* unchanged.                                                                *)
CreateBranchContract ==
    [][\A name \in BranchNames :
          initialized =>
             IF name \in BranchSet
             THEN /\ create_error(name) = "BranchExistsError"
                  /\ create_branch(name) => UNCHANGED branches
             ELSE /\ create_error(name) = "ok"
                  /\ create_branch(name) =>
                        /\ DOMAIN branches' \ {"current"} = BranchSet \cup {name}
                        /\ branches'[name] = CurrentTip
                        /\ branches'["current"] = branches["current"]
                        /\ \A b \in BranchSet : branches'[b] = branches[b]
                        /\ UNCHANGED <<commits, staging>>]_vars

(* C14: a commit interrupted after any of its persistence steps leaves the  *)
(* repository either in the pre-commit state for head and staging (the new  *)
(* record possibly persisted but unreferenced) or in the full post-commit   *)
(* state (head advanced and staging empty): no crash leaves the head        *)
(* advanced while the staging table still holds the committed entries, and  *)
(* none leaves a head that names a commit that is not persisted.            *)
CommitAtomicUnderCrash ==
    [][\A p \in Procs :
          (crash(p) /\ pc[p] \in {"write_commit", "write_branches", "write_staging"})
          => LET current_branch == frame[p].branches["current"]
                 before == /\ branches'[current_branch]
                                 = frame[p].branches[current_branch]
                           /\ staging' = frame[p].staging
                 after  == /\ branches'[current_branch] = frame_commit_hash(p)
                           /\ staging' = EmptyMap
             IN  /\ before \/ after
                 /\ \A b \in DOMAIN branches' \ {"current"} :
                       branches'[b] # None => branches'[b] \in DOMAIN commits']_vars

(* C15: _get_commit_history terminates for every content of the commit      *)
(* store, also one whose parent links form a cycle, where it stops with an  *)
(* error.  The id the loop reads next depends only on the id it holds, so   *)
(* it terminates exactly when it never reads an id a second time.           *)
TraversalTerminates ==
    \A p \in Procs :
        \A i, j \in 1 .. Len(frame[p].history) :
            i # j => frame[p].history[i] # frame[p].history[j]

(* C16: when two processes run commit with their file accesses interleaved, *)
(* a lost update is reachable (the witness): both return a commit id, and   *)
(* one of the two commits is reachable from no branch head because its      *)
(* branch-table write was overwritten.  The update is lost in every such    *)
(* race: of two commits returned from the same content of the branch        *)
(* table, both are persisted and exactly one is in the chain of the head    *)
(* of the branch they were made on.                                          *)
LostUpdate ==
    \A p \in Procs, q \in Procs :
        RacedCommits(p, q) =>
            LET chain == AncestorsOf(branches[frame[p].branches["current"]])
            IN  /\ commit_exists(frame_commit_hash(p))
                /\ commit_exists(frame_commit_hash(q))
                /\ (frame_commit_hash(p) \in chain) # (frame_commit_hash(q) \in chain)

\* Both processes have returned a commit id, and the commit that process 1
\* returned is persisted and reachable from no branch head.
LostUpdateWitness ==
    /\ RacedCommits(1, 2)
    /\ commit_exists(frame_commit_hash(1))
    /\ frame_commit_hash(1) \notin ReachableFromHeads
    /\ frame_commit_hash(2) \in ReachableFromHeads

StageIdempotent ==
    \A tree \in Trees, file_path \in Paths, first \in Clock, second \in Clock :
        stage_error(tree, file_path) = "ok" =>
            LET once  == staging_table(staging, tree, file_path, first)
                twice == staging_table(once, tree, file_path, second)
            IN  /\ DOMAIN twice = DOMAIN staging \cup {file_path}
                /\ twice[file_path].hash = once[file_path].hash
                /\ \A other \in DOMAIN staging \ {file_path} :
                      twice[other] = staging[other]

\* A path is staged a second time, at a later time and from the unchanged
\* file, while the other path is staged too.
StageIdempotentWitness ==
    \E tree \in Trees, file_path \in Paths :
        /\ stage_error(tree, file_path) = "ok"
        /\ DOMAIN staging = Paths
        /\ staging[file_path].hash = _hash_file(tree.files[file_path])
        /\ staging[file_path].timestamp = 0
        /\ staging_table(staging, tree, file_path, 1) # staging

(* C19: when merge_branch returns, a path that commits made after the       *)
(* common ancestor recorded on exactly one of the two branches is not in    *)
(* conflicts, also when the tip of the other branch does not record it.     *)
OneSidedChangeMerges ==
    \A tree \in Trees, name \in BranchNames :
        LET result == merge_result(tree, name)
            base == NearestCommon(SourceTip(name), CurrentTip)
        IN  result.err = "ok" =>
              \A path \in Paths :
                  (Touched(Since(SourceTip(name), base), path)
                      # Touched(Since(CurrentTip, base), path))
                  => path \notin result.ret.conflicts

(* C20: entries leave the staging table only through a successful commit,   *)
(* which clears the whole table; stage_file only adds or overwrites the     *)
(* entry of the one path it is given; create_branch, switch_branch,         *)
(* merge_branch and every failed operation leave the table unchanged.       *)
StagingFrame ==
    [][/\ \/ UNCHANGED staging
          \/ /\ staging' = EmptyMap
             /\ commit_error = "ok"
             /\ CommitStep
          \/ \E tree \in Trees, file_path \in Paths, timestamp \in Timestamps :
                /\ stage_error(tree, file_path) = "ok"
                /\ stage_file(tree, file_path, timestamp)
                /\ DOMAIN staging' = DOMAIN staging \cup {file_path}
                /\ \A other \in DOMAIN staging \ {file_path} :
                      staging'[other] = staging[other]
       /\ UNCHANGED staging \/ ~(CreateStep \/ SwitchStep \/ MergeStep)
       /\ UNCHANGED staging
             \/ ~(commit_error # "ok" /\ CommitStep)
       /\ UNCHANGED staging
             \/ ~(\E tree \in Trees, file_path \in Paths, timestamp \in Timestamps :
                     stage_error(tree, file_path) # "ok"
                         /\ stage_file(tree, file_path, timestamp))]_vars

\* Both paths are staged on a second branch of a repository that has a
\* commit: the table was cleared by it and filled again.
StagingFrameWitness ==
    /\ initialized
    /\ commits # EmptyMap
    /\ DOMAIN staging = Paths
    /\ Cardinality(BranchSet) = 2
    /\ get_current_branch = "dev"

(* C21: the head of an existing branch changes only through a successful    *)
(* commit made while that branch is current, and then it is the new commit, *)
(* whose parent is the old head; commit leaves the heads of the other       *)
(* branches and the current marker unchanged; stage_file, create_branch,    *)
(* switch_branch and merge_branch change the head of no existing branch.    *)
HeadFrame ==
    [][/\ \A b \in BranchSet :
             \/ branches'[b] = branches[b]
             \/ /\ commit_error = "ok"
                /\ CommitStep
                /\ b = get_current_branch
                /\ branches'[b] \in DOMAIN commits'
                /\ commits'[branches'[b]].parent = branches[b]
       /\ \/ ~(commit_error = "ok" /\ CommitStep)
          \/ /\ get_current_branch' = get_current_branch
             /\ \A b \in BranchSet \ {get_current_branch} :
                   branches'[b] = branches[b]]_vars

CloneCopies ==
    [][(clone_error = "ok" /\ clone) =>
          /\ dest'.initialized
          /\ dest'.branches = branches
          /\ \A id \in DOMAIN commits :
                /\ id \in DOMAIN dest'.commits
                /\ dest'.commits[id] = commits[id]
          /\ \A b \in DOMAIN dest'.branches \ {"current"} :
                \/ dest'.branches[b] = None
                \/ dest'.branches[b] \in DOMAIN dest'.commits
          /\ \A id \in DOMAIN dest'.commits :
                \/ dest'.commits[id].parent = None
                \/ dest'.commits[id].parent \in DOMAIN dest'.commits
          /\ dest'.staging = EmptyMap]_vars

====
